---- MODULE Spec2Model ----
(***************************************************************************)
(* emailinspect: the verification pipeline of inspect_list (inspect.py)   *)
(* and the SMTP session / recipient prober it drives (smtp.py).           *)
(*                                                                         *)
(* Strings are sequences of one-character strings, so that the string     *)
(* functions of the code (lower, partition, rstrip, split, replace) are   *)
(* computed and not assumed.  The alphabet has no whitespace, quotes,     *)
(* brackets or parentheses: email.utils.parseaddr and str.strip return    *)
(* such a string unchanged, and of the RFC 2822 grammar of base.py only   *)
(* the dot-atom forms remain.                                             *)
(***************************************************************************)
EXTENDS Integers, Sequences, FiniteSets, TLC

\* ------------------------------------------------------------------ bounds
\* Longest input list given to inspect_list.
MaxAddrs == 3
MaxOps == 3

\* ----------------------------------------------------------------- strings
\* str.lower on one character.
LowerChar(c) ==
    CASE c = "A" -> "a"
      [] c = "B" -> "b"
      [] c = "H" -> "h"
      [] c = "D" -> "d"
      [] OTHER -> c

\* str.lower.
Lower(s) == [i \in 1..Len(s) |-> LowerChar(s[i])]

\* Index of the first occurrence of c in s, 0 when there is none.
IndexOf(s, c) ==
    IF \E i \in 1..Len(s) : s[i] = c
    THEN CHOOSE i \in 1..Len(s) : s[i] = c /\ \A j \in 1..(i - 1) : s[j] # c
    ELSE 0

\* s.partition(c): the parts before and after the first c (all of s, and the
\* empty string, when c does not occur).
PartitionBefore(s, c) ==
    IF IndexOf(s, c) = 0 THEN s ELSE SubSeq(s, 1, IndexOf(s, c) - 1)

PartitionAfter(s, c) ==
    IF IndexOf(s, c) = 0 THEN <<>> ELSE SubSeq(s, IndexOf(s, c) + 1, Len(s))

\* s.rstrip('.')
RECURSIVE RStripDot(_)
RStripDot(s) ==
    IF Len(s) > 0 /\ s[Len(s)] = "."
    THEN RStripDot(SubSeq(s, 1, Len(s) - 1))
    ELSE s

\* s.replace('.', '')
RECURSIVE RemoveDots(_)
RemoveDots(s) ==
    IF s = <<>> THEN <<>>
    ELSE IF Head(s) = "." THEN RemoveDots(Tail(s))
    ELSE <<Head(s)>> \o RemoveDots(Tail(s))

\* '@'.join([user, domain])
JoinAt(user, domain) == user \o <<"@">> \o domain

\* ------------------------------------------------------- utils.split_email
split_email(email) ==
    IF email = <<>>
    THEN [user |-> <<>>, domain |-> <<>>]
    ELSE [user   |-> PartitionBefore(Lower(email), "@"),
          domain |-> RStripDot(PartitionAfter(Lower(email), "@"))]

\* ------------------------------------------------- base.is_valid_address
\* ATEXT of base.py restricted to the alphabet: letters, '+' and '-'.
ATEXT == {"a", "b", "h", "d", "f", "m", "u", "A", "B", "H", "D", "+", "-"}

\* DOT_ATOM_TEXT: ATEXT+ (\. ATEXT+)*
IsDotAtomText(s) ==
    /\ Len(s) > 0
    /\ \A i \in 1..Len(s) : s[i] \in ATEXT \cup {"."}
    /\ s[1] # "."
    /\ s[Len(s)] # "."
    /\ \A i \in 1..(Len(s) - 1) : ~(s[i] = "." /\ s[i + 1] = ".")

\* The regular expression without its '@' DOMAIN part: any dot-atom passes.
is_valid_address_LocalPartOnly(email_address) ==
    /\ email_address # <<>>
    /\ IsDotAtomText(PartitionBefore(email_address, "@"))

\* VALID_ADDRESS_REGEXP: ^ LOCAL_PART @ DOMAIN $
is_valid_address(email_address) ==
    /\ email_address # <<>>
    /\ IndexOf(email_address, "@") > 0
    /\ IsDotAtomText(PartitionBefore(email_address, "@"))
    /\ IsDotAtomText(PartitionAfter(email_address, "@"))

\* ------------------------------------------------------ base.DomainCheck
\* A pattern ^(.*\.)?base$ : the name is base, or ends with '.' base.
MatchesBase(name, base) ==
    \/ name = base
    \/ /\ Len(name) > Len(base)
       /\ SubSeq(name, Len(name) - Len(base), Len(name)) = <<".">> \o base

\* DomainCheck.prepare_value: the domain of the value, or its user part
\* when it has no '@'.
DomainCheckValue(value) ==
    IF split_email(value).domain # <<>>
    THEN split_email(value).domain
    ELSE split_email(value).user

\* Checker.check(*args): some argument matches some pattern.
DomainCheck(bases, names) ==
    \E i \in 1..Len(names) : \E b \in bases :
        MatchesBase(DomainCheckValue(names[i]), b)

\* The provider names, one label standing for each registered name
\* ("h" for hotmail.com, "g" for gmail.com, "y" for yahoo.com) and
\* "f.m" for fastmail.fm.
is_microsoft(names) == DomainCheck({<<"h">>}, names)
is_google(names) == DomainCheck({<<"g">>}, names)
is_yahoo(names) == DomainCheck({<<"y">>}, names)
is_fastmail(names) == DomainCheck({<<"f", ".", "m">>}, names)

\* Checker.check with escaped patterns (the word lists read by from_file):
\* ^word$, the prepared value is one of the words.
WordCheck(words, values) ==
    \E i \in 1..Len(values) : values[i] \in words

\* The word lists free.txt, disposable.txt and role.txt, read with
\* escape=True: "h" is a free-mail domain, "d" a disposable one, "adm" a
\* role account.
is_free(names) ==
    WordCheck({<<"h">>}, [i \in 1..Len(names) |-> DomainCheckValue(names[i])])

is_disposable(names) ==
    WordCheck({<<"d">>}, [i \in 1..Len(names) |-> DomainCheckValue(names[i])])

is_role(user) ==
    WordCheck({<<"a", "d", "m">>}, <<split_email(user).user>>)

\* ---------------------------------------------------------- base.normalize
normalize(email_address, exchanges) ==
    LET user == split_email(email_address).user
        domain == split_email(email_address).domain
        names == <<domain>> \o exchanges
    IN  IF is_microsoft(names)
        THEN JoinAt(PartitionBefore(user, "+"), domain)
        ELSE IF is_google(names)
        THEN JoinAt(PartitionBefore(RemoveDots(user), "+"), domain)
        ELSE IF is_yahoo(names)
        THEN JoinAt(PartitionBefore(user, "-"), domain)
        ELSE IF is_fastmail(names)
        THEN IF IndexOf(PartitionAfter(domain, "."), ".") > 0
             THEN JoinAt(PartitionBefore(domain, "."), PartitionAfter(domain, "."))
             ELSE JoinAt(PartitionBefore(user, "+"), domain)
        ELSE JoinAt(user, domain)

\* ------------------------------------------------- smtp.resolve_mx_records
\* Exchange(exchange, preference)
Exchange(host, pref) == [exchange |-> host, preference |-> pref]

\* list.sort(key=preference): stable insertion sort, ascending.
RECURSIVE InsertByPreference(_, _)
InsertByPreference(sorted, ex) ==
    IF sorted = <<>> THEN <<ex>>
    ELSE IF Head(sorted).preference <= ex.preference
    THEN <<Head(sorted)>> \o InsertByPreference(Tail(sorted), ex)
    ELSE <<ex>> \o sorted

\* The records in the order of the answer.
SortByPreference_AsAnswered(exs) == exs

RECURSIVE SortByPreference(_)
SortByPreference(exs) ==
    IF exs = <<>> THEN <<>>
    ELSE InsertByPreference(SortByPreference(SubSeq(exs, 1, Len(exs) - 1)),
                            exs[Len(exs)])

\* What dns.resolver.query may give for a name: a DNSException, or MX
\* records in the order of the response, host names in to_text() form
\* (with the trailing dot of the root).
DNSAnswers ==
    { [exc |-> TRUE, rr |-> <<>>],
      [exc |-> FALSE, rr |-> <<Exchange(<<"n", ".">>, 20),
                               Exchange(<<"m", ".">>, 10)>>] }

\* The name queried: qname[qname.find('@') + 1:]
QueryName(qname) ==
    IF IndexOf(qname, "@") = 0 THEN qname ELSE PartitionAfter(qname, "@")

\* resolve_mx_records with raise_exception left False; answer is what the
\* resolver gave for QueryName(qname).
resolve_mx_records(qname, answer) ==
    IF answer.exc THEN <<>>
    ELSE SortByPreference(
           [i \in 1..Len(answer.rr) |->
              Exchange(RStripDot(answer.rr[i].exchange),
                       answer.rr[i].preference)])

\* ------------------------------------------------- inspect.EmailAddress
\* EmailAddress.__init__ changed to keep the query in lower case.
EmailAddress_LowerQuery(query) ==
    [query |-> Lower(query), valid |-> FALSE, email |-> <<>>, user |-> <<>>,
     domain |-> <<>>, free |-> FALSE, disposable |-> FALSE, role |-> FALSE,
     gibberish |-> FALSE, catch_all |-> FALSE, exchange |-> <<>>,
     all_exchanges |-> <<>>, status |-> "unknown", reason |-> "None"]

\* EmailAddress.__init__.  None is "None" for reason, the empty sequence
\* for email, user, domain, exchange and all_exchanges, and FALSE for the
\* flags (all read only for their truth value).
EmailAddress(query) ==
    [query |-> query, valid |-> FALSE, email |-> <<>>, user |-> <<>>,
     domain |-> <<>>, free |-> FALSE, disposable |-> FALSE, role |-> FALSE,
     gibberish |-> FALSE, catch_all |-> FALSE, exchange |-> <<>>,
     all_exchanges |-> <<>>, status |-> "unknown", reason |-> "None"]

\* The raw address strings a caller passes.
QueryPool ==
    { <<"a", "b">>,
      <<"a", "+", "b", "@", "h">>,
      <<"B", "@", "H">>,
      <<"a", "@", "d">> }

Inputs == UNION { [1..n -> QueryPool] : n \in 0..MaxAddrs }

\* ------------------------------------------------------- smtp.SMTPSession
\* What the server (through smtplib) does at each step of one start():
\* the outcome of connect, of ehlo_or_helo_if_needed and of mail; "-" for
\* a step that is not reached.
ConnectOutcomes ==
    {"220", "554", "socket.error", "socket.timeout", "SMTPServerDisconnected"}
HeloOutcomes == {"ok", "SMTPHeloError", "socket.timeout", "SMTPServerDisconnected"}
MailOutcomes == {"250", "550", "socket.timeout", "SMTPServerDisconnected"}

StartBehaviours ==
    { [connect |-> c, helo |-> "-", mail |-> "-"] : c \in ConnectOutcomes \ {"220"} }
    \cup { [connect |-> "220", helo |-> h, mail |-> "-"] : h \in HeloOutcomes \ {"ok"} }
    \cup { [connect |-> "220", helo |-> "ok", mail |-> m] : m \in MailOutcomes }

\* What the server does with one RCPT: a reply code, or the exception
\* smtplib raises.
RcptCodes == {"250", "251", "550", "552", "554"}
RcptOutcomes == RcptCodes \cup {"socket.timeout", "SMTPServerDisconnected"}

\* SMTPSession.__init__: _smtp is None; conn is the state of the
\* conversation held by the smtplib object.
SMTPSession(host) == [host |-> host, smtp |-> "None", conn |-> "Closed"]

\* No session object.
NoSession == SMTPSession(<<>>)

\* What happens to the QUIT of quit(): the reply, or the exception smtplib
\* raises.
QuitOutcomes == {"221", "SMTPServerDisconnected", "socket.timeout"}

\* SMTPSession.quit under outcome q of the QUIT: the session afterwards and
\* the exception that leaves quit() ("none" when it returns).  QUIT is
\* sent when there is a handle; SMTPServerDisconnected (also raised by
\* smtplib without any traffic when the handle has no connection) is
\* swallowed; any other exception leaves quit() before the handle is
\* cleared.
QuitWith(s, q) ==
    IF s.smtp = "None"
    THEN [session |-> [s EXCEPT !.smtp = "None"], raised |-> "none"]
    ELSE IF q = "socket.timeout" /\ s.conn # "Closed"
    THEN [session |-> s, raised |-> "socket.timeout"]
    ELSE [session |-> [s EXCEPT !.smtp = "None", !.conn = "Closed"],
          raised |-> "none"]

\* SMTPSession.quit as inspect_list meets it: the QUIT gets its reply, or
\* the server is gone.
quit(s) == QuitWith(s, "221").session

\* socket.timeout is a subclass of socket.error: the inner handler of
\* start() around connect catches both.
IsSocketError(outcome) == outcome \in {"socket.error", "socket.timeout"}

\* SMTPSession.start under behaviour b: the session afterwards, and the
\* reason of the SMTPSessionError raised ("none" when start returns).
start(s, b) ==
    LET new == [s EXCEPT !.smtp = "SMTP", !.conn = "Closed"]
        connected == [new EXCEPT !.conn = "Connected"]
        greeted == [new EXCEPT !.conn = "Greeted"]
    IN  IF IsSocketError(b.connect)
        THEN [session |-> new, error |-> "no_connect"]
        ELSE IF b.connect = "SMTPServerDisconnected"
        THEN [session |-> new, error |-> "invalid_smtp"]
        ELSE IF b.connect # "220"
        THEN [session |-> quit(connected), error |-> "invalid_smtp"]
        ELSE IF b.helo = "SMTPHeloError"
        THEN [session |-> quit(connected), error |-> "invalid_smtp"]
        ELSE IF b.helo = "socket.timeout"
        THEN [session |-> connected, error |-> "timeout"]
        ELSE IF b.helo = "SMTPServerDisconnected"
        THEN [session |-> new, error |-> "invalid_smtp"]
        ELSE IF b.mail = "socket.timeout"
        THEN [session |-> greeted, error |-> "timeout"]
        ELSE IF b.mail = "SMTPServerDisconnected"
        THEN [session |-> new, error |-> "invalid_smtp"]
        ELSE IF b.mail # "250"
        THEN [session |-> quit(greeted), error |-> "invalid_smtp"]
        ELSE [session |-> [new EXCEPT !.conn = "SenderAccepted"], error |-> "none"]

\* SMTPSession.restart
restart(s, b) == start(quit(s), b)

\* One entry of the record of what went over the network: a start() or
\* restart() with what the server did and the reason it failed with
\* ("none" when it succeeded), or an RCPT with its recipient, the state of
\* the conversation it was sent in and the reply.
StartEvent(host, b, error, again) ==
    [op |-> IF again THEN "restart" ELSE "start", host |-> host,
     rcpt |-> <<>>, b |-> b, conn |-> "-", out |-> error]
RcptEvent(s, email, outcome) ==
    [op |-> "rcpt", host |-> s.host, rcpt |-> email,
     b |-> [connect |-> "-", helo |-> "-", mail |-> "-"],
     conn |-> s.conn, out |-> outcome]

\* The history kept for a whole group drops the detail of an event: of a
\* start() only the reason it ended with, of an RCPT only whether the server
\* accepted the recipient ("accept": 250, 251), refused it ("reject"),
\* refused it with a code of the 552/554 family ("block"), or gave no reply
\* ("lost": timeout, disconnect).
ReplyClass(outcome) ==
    CASE outcome \in {"250", "251"} -> "accept"
      [] outcome \in {"552", "554"} -> "block"
      [] outcome \in {"socket.timeout", "SMTPServerDisconnected"} -> "lost"
      [] OTHER -> "reject"

Summary(events) ==
    [i \in 1..Len(events) |->
       [op |-> events[i].op, host |-> events[i].host, rcpt |-> events[i].rcpt,
        out |-> IF events[i].op = "rcpt" THEN ReplyClass(events[i].out)
                ELSE events[i].out]]

\* The acceptance test changed to code == 250.
Accepted_Only250(code) == code = "250"

\* accepted = code in [250, 251]
Accepted(code) == code \in {"250", "251"}

\* No reconnect at all.
NeedsRestart_Never(code) == FALSE

\* The reconnect test changed to code == 552.
NeedsRestart_Only552(code) == code = "552"

\* if code in [552, 554]: self.restart()
NeedsRestart(code) == code \in {"552", "554"}

\* A generator that takes over a session already started instead of
\* opening its own.
verify_smtp_recipients_Started(host, email_addresses) ==
    [st |-> "yield_rcpt", host |-> host, emails |-> email_addresses, k |-> 0,
     code |-> "-", error |-> "none",
     session |-> [host |-> host, smtp |-> "SMTP", conn |-> "SenderAccepted"]]

\* ------------------------------------------- smtp.verify_smtp_recipients
\* The generator verify_smtp_recipients(host, email_addresses), with the
\* generator SMTPSession.recipients it iterates.  st is where it stands:
\*   "created"        not started
\*   "yield_rcpt"     suspended at the yield of a probed address (142/179)
\*   "yield_inactive" suspended at the yield of an address of an inactive
\*                    session (148/179)
\*   "yield_error"    suspended in the SMTPSessionError handler (182)
\*   "finished"
\* k is the index of the address of the last yield, code the reply to its
\* RCPT, error the reason of the SMTPSessionError caught.
verify_smtp_recipients(host, email_addresses) ==
    [st |-> "created", host |-> host, emails |-> email_addresses, k |-> 0,
     code |-> "-", error |-> "none", session |-> SMTPSession(host)]

\* The result of resuming a generator: its new state, whether it yielded,
\* the (email, accepted, reason) yielded, and what went over the network.
Yield(g, email, accepted, reason, events) ==
    [gen |-> g, yielded |-> TRUE,
     value |-> [email |-> email, accepted |-> accepted, reason |-> reason],
     events |-> events]
Stop(g, events) ==
    [gen |-> g, yielded |-> FALSE,
     value |-> [email |-> <<>>, accepted |-> FALSE, reason |-> "None"],
     events |-> events]

\* The SMTPSessionError handler of verify_smtp_recipients, from address j:
\* every address of the batch, from the first, with e.reason.
ErrorLoop(g, j, events) ==
    IF j <= Len(g.emails)
    THEN Yield([g EXCEPT !.st = "yield_error", !.k = j],
               g.emails[j], FALSE, g.error, events)
    ELSE Stop([g EXCEPT !.st = "finished"], events)

\* The loop of recipients() at address j once the session is inactive:
\* (email, False) without any command; at the end of the batch the
\* with-block quits.
InactiveLoop(g, j, events) ==
    IF j <= Len(g.emails)
    THEN Yield([g EXCEPT !.st = "yield_inactive", !.k = j, !.code = "-"],
               g.emails[j], FALSE, "rejected_email", events)
    ELSE Stop([g EXCEPT !.st = "finished", !.session = quit(g.session)], events)

\* The address the loop of recipients() goes on with after an RCPT for
\* address j raised: the handler yields nothing for j.
AfterRcptError(j) == j + 1

\* The loop of recipients() at address j with an active session; r is what
\* the server does with the RCPT.
ActiveLoop(g, j, r, events) ==
    IF j > Len(g.emails)
    THEN Stop([g EXCEPT !.st = "finished", !.session = quit(g.session)], events)
    ELSE IF r \in RcptCodes
    THEN Yield([g EXCEPT !.st = "yield_rcpt", !.k = j, !.code = r],
               g.emails[j], Accepted(r),
               IF Accepted(r) THEN "accepted_email" ELSE "rejected_email",
               Append(events, RcptEvent(g.session, g.emails[j], r)))
    ELSE InactiveLoop([g EXCEPT !.session = quit(g.session)],
                      AfterRcptError(j),
                      Append(events, RcptEvent(g.session, g.emails[j], r)))

\* A start() or restart() inside the generator, then the loop from address
\* j; an SMTPSessionError leaves the with-block (which quits after a
\* restart, the session having been entered) for the handler.
StartThenLoop(g, res, b, r, j, again) ==
    LET ev == <<StartEvent(g.host, b, res.error, again)>>
    IN  IF res.error = "none"
        THEN ActiveLoop([g EXCEPT !.session = res.session], j, r, ev)
        ELSE ErrorLoop([g EXCEPT !.error = res.error,
                                 !.session = IF again THEN quit(res.session)
                                             ELSE res.session],
                       1, ev)

\* next() on the generator: it runs to its next yield or to its end.  b is
\* what the server does if a session is started, r if an RCPT is sent.
GenNext(g, b, r) ==
    CASE g.st = "created" ->
           StartThenLoop(g, start(g.session, b), b, r, 1, FALSE)
      [] g.st = "yield_rcpt" ->
           IF NeedsRestart(g.code)
           THEN StartThenLoop(g, restart(g.session, b), b, r, g.k + 1, TRUE)
           ELSE ActiveLoop(g, g.k + 1, r, <<>>)
      [] g.st = "yield_inactive" -> InactiveLoop(g, g.k + 1, <<>>)
      [] g.st = "yield_error" -> ErrorLoop(g, g.k + 1, <<>>)
      [] OTHER -> Stop(g, <<>>)

\* A generator that is never resumed again (the loop that consumed it is
\* over): what is left of it is whether it stands inside its with-block,
\* and its session; the fields only a next() reads are blanked.
GenParked(g) ==
    IF g.st \in {"yield_rcpt", "yield_inactive"}
    THEN [g EXCEPT !.emails = <<>>, !.k = 0, !.code = "-", !.st = "yield_rcpt"]
    ELSE [verify_smtp_recipients(<<>>, <<>>) EXCEPT !.st = "finished"]

\* The generator is dropped: GeneratorExit at the yield it is suspended
\* at; inside the with-block, __exit__ quits the session.
GenClose(g) ==
    IF g.st \in {"yield_rcpt", "yield_inactive"}
    THEN [g EXCEPT !.st = "finished", !.session = quit(g.session)]
    ELSE IF g.st = "created" THEN g
    ELSE [g EXCEPT !.st = "finished"]

\* ------------------------------------------------------ inspect.inspect_list
VARIABLES
    email_addresses,  \* the argument: the raw address strings
    addresses,        \* the list of EmailAddress, returned at the end
    mx_cache,         \* domain -> exchanges
    pc,               \* where inspect_list stands
    idx,              \* the position of the first loop in addresses
    wpos,             \* the position of groupby in with_exchanges
    group,            \* the current group: indices into addresses
    exIdx,            \* the position of the exchange loop
    catch_all_email,  \* the synthetic recipient of the current group
    it,               \* the generator verify_smtp_recipients of line 107
    gi,               \* the position of izip in group
    probe,            \* history: the generator of the verify_smtp_recipient
                      \* of the last step, after it was dropped
    lookups,          \* history: the cache lookups of the first loop
    glog,             \* history: the network record of the current group
    last,             \* history: the network events of the last step, in full
    sess,             \* an SMTPSession driven on its own, outside inspect_list
    slog              \* history: the calls made on sess and how they ended

vars == <<email_addresses, addresses, mx_cache, pc, idx, wpos, group, exIdx,
          catch_all_email, it, gi, probe, lookups, glog, last, sess, slog>>

\* No generator (yet, or any more).
NoProbe == verify_smtp_recipients(<<>>, <<>>)

\* The cache test changed to "if not exchanges": an empty answer is asked
\* for again.
CacheMiss_IfEmpty(cache, domain) ==
    domain \notin DOMAIN cache \/ cache[domain] = <<>>

\* exchanges = mx_cache.get(domain); if exchanges is None: resolve
CacheMiss(cache, domain) == domain \notin DOMAIN cache

\* with_exchanges: the indices of the addresses whose all_exchanges is
\* not empty, in input order.
RECURSIVE IndicesWithExchanges(_, _)
IndicesWithExchanges(as, i) ==
    IF i > Len(as) THEN <<>>
    ELSE IF as[i].all_exchanges # <<>>
    THEN <<i>> \o IndicesWithExchanges(as, i + 1)
    ELSE IndicesWithExchanges(as, i + 1)

with_exchanges(as) == IndicesWithExchanges(as, 1)

\* itertools.groupby(with_exchanges, key=domain) at position p: the
\* longest run of adjacent addresses with the domain of the p-th.
GroupAt(as, w, p) ==
    LET stop == CHOOSE q \in p..Len(w) :
                  /\ \A j \in p..q : as[w[j]].domain = as[w[p]].domain
                  /\ q < Len(w) => as[w[q + 1]].domain # as[w[p]].domain
    IN  SubSeq(w, p, stop)

\* '{}@{}'.format(uuid.uuid4(), domain): a local part no input has,
\* different for each group (as many '#' as the group's position).
CatchAllEmail(p, domain) == JoinAt([i \in 1..p |-> "#"], domain)

\* emails = [addr.email for addr in group]
Emails(as, grp) == [k \in 1..Len(grp) |-> as[grp[k]].email]

\* The last loop without the catch_all test.
FinalStatus_NoCatchAll(addr) ==
    IF addr.reason = "accepted_email"
    THEN IF addr.disposable \/ addr.gibberish THEN "risky" ELSE "deliverable"
    ELSE "undeliverable"

\* The last loop without the disposable test.
FinalStatus_IgnoresDisposable(addr) ==
    IF addr.reason = "accepted_email"
    THEN IF addr.gibberish \/ addr.catch_all THEN "risky" ELSE "deliverable"
    ELSE "undeliverable"

\* The last loop: the status of an address of with_exchanges.
FinalStatus(addr) ==
    IF addr.reason = "accepted_email"
    THEN IF addr.disposable \/ addr.gibberish \/ addr.catch_all
         THEN "risky"
         ELSE "deliverable"
    ELSE "undeliverable"

\* Lines 71-75 without the test of all_exchanges.
DomainReason_NoConnect(all_exchanges) == "no_connect"

\* Lines 71-75: the reason after the first loop.
DomainReason(all_exchanges) ==
    IF all_exchanges = <<>> THEN "invalid_domain" ELSE "no_connect"

\* Lines 96-97 with break for continue: no exchange is tried after the
\* i-th of n.
NextExchange_Break(i, n) == n + 1

\* Lines 96-97: continue, the loop goes on with the exchange after the
\* i-th of n.
NextExchange(i, n) == i + 1

\* One cache lookup of the first loop (lines 55-58): the input it was for,
\* the name looked up, and whether the resolver was asked.
Lookup(i, domain, asked) ==
    [input |-> i, name |-> QueryName(domain), asked |-> asked]

\* The body of the first loop for one address; answer is what the resolver
\* gives if it is asked.
Phase1Address(addr, cache, answer) ==
    LET domain == split_email(addr.query).domain
        all_exchanges == IF CacheMiss(cache, domain)
                         THEN resolve_mx_records(domain, answer)
                         ELSE cache[domain]
        exchanges == [i \in 1..Len(all_exchanges) |-> all_exchanges[i].exchange]
        email == normalize(addr.query, exchanges)
        parts == split_email(email)
    IN  IF ~is_valid_address(addr.query)
        THEN [addr EXCEPT !.valid = FALSE, !.status = "undeliverable",
                          !.reason = "invalid_email"]
        ELSE [addr EXCEPT
                !.valid = TRUE,
                !.all_exchanges = all_exchanges,
                !.email = email,
                !.user = parts.user,
                !.domain = parts.domain,
                !.free = is_free(<<parts.domain>>),
                !.disposable = is_disposable(<<parts.domain>> \o exchanges),
                !.role = is_role(parts.user),
                !.status = IF all_exchanges = <<>> THEN "undeliverable" ELSE @,
                !.reason = DomainReason(all_exchanges)]

Init ==
    /\ email_addresses \in Inputs
    /\ addresses = [i \in 1..Len(email_addresses) |-> EmailAddress(email_addresses[i])]
    /\ mx_cache = <<>>
    /\ pc = "phase1"
    /\ idx = 1
    /\ wpos = 1
    /\ group = <<>>
    /\ exIdx = 1
    /\ catch_all_email = <<>>
    /\ it = NoProbe
    /\ gi = 1
    /\ probe = NoProbe
    /\ lookups = <<>>
    /\ glog = <<>>
    /\ last = <<>>
    /\ sess = NoSession
    /\ slog = <<>>

\* Lines 43-75: one iteration of the first loop.
Phase1 ==
    /\ UNCHANGED <<sess, slog>>
    /\ pc = "phase1"
    /\ idx <= Len(addresses)
    /\ LET addr == addresses[idx]
           domain == split_email(addr.query).domain
           asks == is_valid_address(addr.query) /\ CacheMiss(mx_cache, domain)
       IN  \E answer \in IF asks THEN DNSAnswers ELSE {[exc |-> TRUE, rr |-> <<>>]} :
             /\ addresses' = [addresses EXCEPT ![idx] = Phase1Address(addr, mx_cache, answer)]
             /\ mx_cache' = IF asks
                            THEN (domain :> resolve_mx_records(domain, answer)) @@ mx_cache
                            ELSE mx_cache
             /\ lookups' = IF is_valid_address(addr.query)
                           THEN Append(lookups, Lookup(idx, domain, asks))
                           ELSE lookups
    /\ idx' = idx + 1
    /\ last' = <<>>
    /\ probe' = NoProbe
    /\ UNCHANGED <<email_addresses, pc, wpos, group, exIdx, catch_all_email,
                   it, gi, glog>>

\* Line 78: the first loop is over.
Phase1Done ==
    /\ UNCHANGED <<sess, slog>>
    /\ pc = "phase1"
    /\ idx > Len(addresses)
    /\ pc' = "groupby"
    /\ wpos' = 1
    /\ last' = <<>>
    /\ probe' = NoProbe
    /\ UNCHANGED <<email_addresses, addresses, mx_cache, idx, group, exIdx,
                   catch_all_email, it, gi, lookups, glog>>

\* Lines 80-90: groupby gives the next group.
NextGroup ==
    /\ UNCHANGED <<sess, slog>>
    /\ pc = "groupby"
    /\ LET w == with_exchanges(addresses)
       IN  /\ wpos <= Len(w)
           /\ group' = GroupAt(addresses, w, wpos)
           /\ wpos' = wpos + Len(group')
           /\ catch_all_email' = CatchAllEmail(wpos, addresses[w[wpos]].domain)
    /\ pc' = "exchange_loop"
    /\ exIdx' = 1
    /\ gi' = 1
    /\ glog' = <<>>
    /\ last' = <<>>
    /\ probe' = NoProbe
    /\ UNCHANGED <<email_addresses, addresses, mx_cache, idx, it, lookups>>

\* What the server is asked in one next() of generator g: a behaviour of
\* start() if a session is started, an outcome of RCPT if the start can
\* succeed.
StartChoices(g) ==
    IF g.st = "created" \/ (g.st = "yield_rcpt" /\ NeedsRestart(g.code))
    THEN StartBehaviours
    ELSE {[connect |-> "-", helo |-> "-", mail |-> "-"]}

RcptChoices(g, b) ==
    IF g.st \in {"created", "yield_rcpt"} /\ b.connect \in {"-", "220"}
       /\ b.helo \in {"-", "ok"} /\ b.mail \in {"-", "250"}
    THEN RcptOutcomes
    ELSE {"-"}

\* Lines 93-112, one iteration of the exchange loop: the catch-all probe
\* verify_smtp_recipient(exchange, catch_all_email) = the first next() of
\* a generator that is then dropped; then the branch taken on its result.
\* After a no_connect on the last exchange the loop is over.
ProbeExchange ==
    /\ UNCHANGED <<sess, slog>>
    /\ pc = "exchange_loop"
    /\ exIdx <= Len(addresses[group[1]].all_exchanges)
    /\ LET all_exchanges == addresses[group[1]].all_exchanges
           exchange == all_exchanges[exIdx].exchange
           g0 == verify_smtp_recipients(exchange, <<catch_all_email>>)
       IN  \E b \in StartChoices(g0) : \E r \in RcptChoices(g0, b) :
             LET res == GenNext(g0, b, r)
             IN  /\ probe' = GenClose(res.gen)
                 /\ glog' = glog \o Summary(res.events)
                 /\ last' = res.events
                 /\ IF ~res.yielded
                    THEN \* .next() raises StopIteration
                         /\ pc' = "raised"
                         /\ UNCHANGED <<addresses, exIdx, it, gi>>
                    ELSE IF res.value.reason = "no_connect"
                    THEN /\ exIdx' = NextExchange(exIdx, Len(all_exchanges))
                         /\ pc' = IF exIdx' > Len(all_exchanges)
                                  THEN "groupby" ELSE pc
                         /\ UNCHANGED <<addresses, it, gi>>
                    ELSE IF res.value.accepted
                    THEN /\ addresses' =
                              [i \in 1..Len(addresses) |->
                                 IF \E k \in 1..Len(group) : group[k] = i
                                 THEN [addresses[i] EXCEPT
                                         !.reason = res.value.reason,
                                         !.catch_all = res.value.accepted,
                                         !.exchange = exchange]
                                 ELSE addresses[i]]
                         /\ pc' = "groupby"
                         /\ UNCHANGED <<exIdx, it, gi>>
                    ELSE /\ it' = verify_smtp_recipients(exchange, Emails(addresses, group))
                         /\ gi' = 1
                         /\ pc' = "izip"
                         /\ UNCHANGED <<addresses, exIdx>>
    /\ UNCHANGED <<email_addresses, mx_cache, idx, wpos, group, catch_all_email, lookups>>

\* Lines 108-111: izip takes the next address of the group, then the next
\* result of the generator, and the body stores it.  The loop is over when
\* the generator ends, or when the group has no further address (izip then
\* does not resume the generator).
IzipNext ==
    /\ UNCHANGED <<sess, slog>>
    /\ pc = "izip"
    /\ gi <= Len(group)
    /\ \E b \in StartChoices(it) : \E r \in RcptChoices(it, b) :
         LET res == GenNext(it, b, r)
             over == ~res.yielded \/ gi + 1 > Len(group)
         IN  /\ it' = IF over THEN GenParked(res.gen) ELSE res.gen
             /\ glog' = glog \o Summary(res.events)
             /\ last' = res.events
             /\ pc' = IF over THEN "groupby" ELSE pc
             /\ IF res.yielded
                THEN /\ addresses' = [addresses EXCEPT
                                        ![group[gi]].reason = res.value.reason,
                                        ![group[gi]].catch_all = FALSE,
                                        ![group[gi]].exchange = it.host]
                     /\ gi' = gi + 1
                ELSE UNCHANGED <<addresses, gi>>
    /\ probe' = NoProbe
    /\ UNCHANGED <<email_addresses, mx_cache, idx, wpos, group, exIdx,
                   catch_all_email, lookups>>

\* Lines 114-123, when groupby has no further group: the status of every
\* address of with_exchanges, and the return (the locals are dropped, the
\* generator with them).
Finalize ==
    /\ UNCHANGED <<sess, slog>>
    /\ pc = "groupby"
    /\ wpos > Len(with_exchanges(addresses))
    /\ addresses' = [i \in 1..Len(addresses) |->
                       IF addresses[i].all_exchanges # <<>>
                       THEN [addresses[i] EXCEPT !.status = FinalStatus(addresses[i])]
                       ELSE addresses[i]]
    /\ it' = GenClose(it)
    /\ pc' = "returned"
    /\ last' = <<>>
    /\ probe' = NoProbe
    /\ UNCHANGED <<email_addresses, mx_cache, idx, wpos, group, exIdx,
                   catch_all_email, gi, lookups, glog>>

Next ==
    \/ Phase1
    \/ Phase1Done
    \/ NextGroup
    \/ ProbeExchange
    \/ IzipNext
    \/ Finalize

Spec == Init /\ [][Next]_vars

\* ------------------------------------------- smtp.SMTPSession on its own
\* A caller that holds one SMTPSession and calls start() and quit() on it
\* in any order, the server doing anything it can; inspect_list is not
\* called.
SessionInit ==
    /\ email_addresses = <<>>
    /\ addresses = <<>>
    /\ mx_cache = <<>>
    /\ pc = "phase1"
    /\ idx = 1
    /\ wpos = 1
    /\ group = <<>>
    /\ exIdx = 1
    /\ catch_all_email = <<>>
    /\ it = NoProbe
    /\ gi = 1
    /\ probe = NoProbe
    /\ lookups = <<>>
    /\ glog = <<>>
    /\ last = <<>>
    /\ sess = SMTPSession(<<"m">>)
    /\ slog = <<>>

\* One call on the session: its name, what the server did, and the reason
\* or exception it raised ("none" when it returned).
Call(op, b, q, raised) == [op |-> op, b |-> b, q |-> q, raised |-> raised]

\* sess.start()
SessionStart ==
    /\ Len(slog) < MaxOps
    /\ \E b \in StartBehaviours :
         LET res == start(sess, b)
         IN  /\ sess' = res.session
             /\ slog' = Append(slog, Call("start", b, "-", res.error))
    /\ UNCHANGED <<email_addresses, addresses, mx_cache, pc, idx, wpos, group,
                   exIdx, catch_all_email, it, gi, probe, lookups, glog, last>>

\* sess.quit()
SessionQuit ==
    /\ Len(slog) < MaxOps
    /\ \E q \in QuitOutcomes :
         LET res == QuitWith(sess, q)
         IN  /\ sess' = res.session
             /\ slog' = Append(slog,
                    Call("quit", [connect |-> "-", helo |-> "-", mail |-> "-"],
                         q, res.raised))
    /\ UNCHANGED <<email_addresses, addresses, mx_cache, pc, idx, wpos, group,
                   exIdx, catch_all_email, it, gi, probe, lookups, glog, last>>

SessionNext ==
    \/ SessionStart
    \/ SessionQuit

SessionSpec == SessionInit /\ [][SessionNext]_vars

\* ================================================================ claims
Returned == pc = "returned"

\* The first loop has dealt with the i-th input.
Phase1Over(i) == pc # "phase1" \/ i < idx

\* The members of the current group, as a set of indices.
GroupMembers == {group[k] : k \in 1..Len(group)}

\* ---------------------------------------------------------------- C1
\* C1: whenever inspect_list returns, the result has one entry per input
\* address and the i-th entry's query is the i-th input string.
C1_OrderPreserved ==
    Returned =>
        /\ Len(addresses) = Len(email_addresses)
        /\ \A i \in 1..Len(addresses) : addresses[i].query = email_addresses[i]

\* A return after three inputs of which the first and the third are of one
\* domain and the second of another, all probed (three groups), the first
\* input in upper case.
C1_Witness ==
    /\ Returned
    /\ Len(addresses) = 3
    /\ addresses[1].query = <<"B", "@", "H">>
    /\ addresses[1].domain = addresses[3].domain
    /\ addresses[1].domain # addresses[2].domain
    /\ \A i \in 1..3 : addresses[i].exchange # <<>>

\* ---------------------------------------------------------------- C2
\* C2: inspect_list never raises to the caller, whatever fails in the SMTP
\* exchanges (the RCPT of the catch-all probe included).
C2_NeverRaises == pc # "raised"

\* ---------------------------------------------------------------- C3
\* C3: the resolver is asked exactly once for each name looked up, also
\* when the answer was empty; every valid input the first loop has dealt
\* with was looked up under the domain of its query, and all inputs looked
\* up under one name hold the same exchange list, the one cached.
C3_ResolvedOncePerDomain ==
    /\ \A k \in 1..Len(lookups) :
         /\ Cardinality({j \in 1..Len(lookups) :
                lookups[j].asked /\ lookups[j].name = lookups[k].name}) = 1
         /\ addresses[lookups[k].input].valid
         /\ addresses[lookups[k].input].all_exchanges = mx_cache[lookups[k].name]
    /\ \A i \in 1..Len(addresses) :
         (addresses[i].valid /\ Phase1Over(i)) =>
             \E k \in 1..Len(lookups) : lookups[k].input = i
    /\ pc # "phase1" =>
         \A k \in 1..Len(lookups) :
             lookups[k].name = split_email(email_addresses[lookups[k].input]).domain

\* A return after two valid inputs of one domain whose answer was empty,
\* and a third of a domain with exchanges.
C3_Witness ==
    /\ Returned
    /\ Len(lookups) = 3
    /\ lookups[1].name = lookups[2].name
    /\ email_addresses[1] # email_addresses[2]
    /\ ~lookups[2].asked
    /\ addresses[1].all_exchanges = <<>>
    /\ addresses[2].all_exchanges = <<>>
    /\ addresses[3].all_exchanges # <<>>

\* --------------------------------------------- the record of one group
\* The exchange loop of the current group is over (and the call did not
\* raise): glog is the whole network record of the group.
GroupOver == group # <<>> /\ pc \in {"groupby", "returned"}

\* The exchanges of the current group.
GroupExchanges == addresses[group[1]].all_exchanges

\* The position in glog of the last event of the catch-all probe that
\* ended the exchange loop: its RCPT, or its start() when that failed with
\* something else than no_connect (all of glog when every exchange failed
\* with no_connect).  What follows is the probing of the real addresses.
ProbeEnds ==
    {k \in 1..Len(glog) :
        \/ glog[k].op = "rcpt"
        \/ glog[k].op = "start" /\ glog[k].out \notin {"none", "no_connect"}}

ProbeEnd ==
    IF ProbeEnds = {} THEN Len(glog)
    ELSE CHOOSE k \in ProbeEnds : \A j \in ProbeEnds : k <= j

\* The positions in glog of the RCPTs sent for real addresses, and the
\* position of the j-th of them.
RecipientRcpts == {k \in (ProbeEnd + 1)..Len(glog) : glog[k].op = "rcpt"}

RecipientRcpt(j) ==
    CHOOSE k \in RecipientRcpts : Cardinality({i \in RecipientRcpts : i <= k}) = j

Restarts == {k \in 1..Len(glog) : glog[k].op = "restart"}

\* Once an address has a catch-all mark or a reason from a reply, its
\* reason, mark and exchange are never written again.
ResultsKept ==
    \A i \in 1..Len(addresses) :
        (addresses[i].catch_all
           \/ addresses[i].reason \in {"accepted_email", "rejected_email"}) =>
            /\ addresses'[i].reason = addresses[i].reason
            /\ addresses'[i].catch_all = addresses[i].catch_all
            /\ addresses'[i].exchange = addresses[i].exchange

\* ---------------------------------------------------------------- C4
\* The synthetic recipient was accepted at position k of the record, by the
\* first exchange that did not fail with no_connect.
ProbeAcceptedAt(k) ==
    /\ glog[k].op = "rcpt"
    /\ glog[k].rcpt = catch_all_email
    /\ glog[k].out = "accept"
    /\ k = ProbeEnd

C4_GroupMarked ==
    GroupOver =>
        \A k \in 1..Len(glog) :
            ProbeAcceptedAt(k) =>
                /\ \A i \in GroupMembers :
                     /\ addresses[i].reason = "accepted_email"
                     /\ addresses[i].catch_all
                     /\ addresses[i].exchange = glog[k].host
                     /\ Returned => addresses[i].status = "risky"
                /\ RecipientRcpts = {}
                /\ \A j \in 1..Len(glog) : glog[j].op = "rcpt" => j = k

C4_MarkedRisky ==
    Returned =>
        \A i \in 1..Len(addresses) :
            addresses[i].catch_all =>
                /\ addresses[i].reason = "accepted_email"
                /\ addresses[i].status = "risky"
                /\ addresses[i].exchange # <<>>

\* C4: when the synthetic probe of a group is accepted by the first
\* exchange that connects, every address of the group has
\* reason=accepted_email, catch_all=true and that host as exchange, keeps
\* them until the return, where its status is risky, and no RCPT is sent
\* for a real address of the group.
C4_CatchAllGroup ==
    /\ [](C4_GroupMarked /\ C4_MarkedRisky)
    /\ [][ResultsKept]_vars

\* A return whose last group has two addresses and was marked catch-all by
\* the second exchange, the first having failed with no_connect.
C4_Witness ==
    /\ Returned
    /\ GroupOver
    /\ Len(group) = 2
    /\ Len(glog) = 3
    /\ glog[1].out = "no_connect"
    /\ ProbeAcceptedAt(3)
    /\ glog[3].host = GroupExchanges[2].exchange
    /\ \A i \in GroupMembers : addresses[i].status = "risky"

\* ---------------------------------------------------------------- C5
\* The server rejected the synthetic probe with a plain refusal, the
\* session for the real addresses started, and every RCPT got a reply
\* other than 552/554.
CleanProbing ==
    /\ ProbeEnd >= 1
    /\ glog[ProbeEnd].op = "rcpt"
    /\ glog[ProbeEnd].out = "reject"
    /\ \A k \in (ProbeEnd + 1)..Len(glog) :
         /\ glog[k].op \in {"start", "rcpt"}
         /\ glog[k].op = "start" => glog[k].out = "none"
         /\ glog[k].op = "rcpt" => glog[k].out \in {"accept", "reject"}

\* Every address of the group, in order, was sent one RCPT on the probed
\* host and holds the reason of the reply to it.
ProbedOneByOne ==
    /\ Len(glog) = ProbeEnd + 1 + Len(group)
    /\ glog[ProbeEnd + 1].op = "start"
    /\ \A j \in 1..Len(group) :
         LET e == glog[ProbeEnd + 1 + j]
             addr == addresses[group[j]]
         IN  /\ e.op = "rcpt"
             /\ e.rcpt = addr.email
             /\ e.host = glog[ProbeEnd].host
             /\ addr.exchange = e.host
             /\ ~addr.catch_all
             /\ addr.reason = IF e.out = "accept" THEN "accepted_email"
                              ELSE "rejected_email"

\* The claim as stated: accepted means deliverable.
C5_AsStated ==
    (GroupOver /\ CleanProbing) =>
        /\ ProbedOneByOne
        /\ Returned =>
             \A i \in GroupMembers :
                 addresses[i].status =
                     IF addresses[i].reason = "accepted_email"
                     THEN "deliverable" ELSE "undeliverable"

C5_GroupProbed == (GroupOver /\ CleanProbing) => ProbedOneByOne

C5_StatusOfReply ==
    Returned =>
        \A i \in 1..Len(addresses) :
            /\ (addresses[i].reason = "accepted_email" /\ ~addresses[i].catch_all) =>
                   addresses[i].status =
                       IF addresses[i].disposable THEN "risky" ELSE "deliverable"
            /\ addresses[i].reason = "rejected_email" =>
                   addresses[i].status = "undeliverable"

\* C5 (amended): for a group whose server rejects the synthetic probe and
\* answers every RCPT with a code other than 552/554, each real address is
\* probed individually, in order, and holds the reason of its own reply
\* (accepted_email for 250/251, rejected_email otherwise) with
\* catch_all=false until the return, where an accepted address is
\* deliverable unless it is disposable (then risky) and a rejected one is
\* undeliverable.
C5_NonCatchAllGroup ==
    /\ [](C5_GroupProbed /\ C5_StatusOfReply)
    /\ [][ResultsKept]_vars

\* A return whose last group has two addresses of a domain that is not
\* disposable, the first accepted and deliverable, the second rejected.
C5_Witness ==
    /\ Returned
    /\ GroupOver
    /\ CleanProbing
    /\ Len(group) = 2
    /\ addresses[group[1]].email # addresses[group[2]].email
    /\ addresses[group[1]].reason = "accepted_email"
    /\ addresses[group[1]].status = "deliverable"
    /\ addresses[group[2]].reason = "rejected_email"
    /\ addresses[group[2]].status = "undeliverable"

\* ---------------------------------------------------------------- C6
\* The group has two exchanges and the first one failed with no_connect.
FirstRefused ==
    /\ Len(GroupExchanges) = 2
    /\ Len(glog) >= 1
    /\ glog[1].op = "start"
    /\ glog[1].host = GroupExchanges[1].exchange
    /\ glog[1].out = "no_connect"

\* Everything after the first event went to the second exchange, which
\* completed every start() and restart() and replied to every RCPT.
SecondAnswers ==
    \A k \in 2..Len(glog) :
        /\ glog[k].host = GroupExchanges[2].exchange
        /\ glog[k].op \in {"start", "restart"} => glog[k].out = "none"
        /\ glog[k].op = "rcpt" => glog[k].out # "lost"

\* C6: when the first of two exchanges refuses the connection, the second
\* exchange is tried before the group is given up, and if the second one
\* connects and answers, no address of the group is left with
\* reason=no_connect.
C6_Fallback ==
    (GroupOver /\ FirstRefused) =>
        /\ Len(glog) >= 2
        /\ glog[2].op = "start"
        /\ glog[2].host = GroupExchanges[2].exchange
        /\ SecondAnswers =>
             \A i \in GroupMembers : addresses[i].reason # "no_connect"

\* A group of two addresses probed one by one on the second exchange after
\* the first refused: one accepted, one rejected.
C6_Witness ==
    /\ GroupOver
    /\ FirstRefused
    /\ SecondAnswers
    /\ Len(group) = 2
    /\ addresses[group[1]].reason = "rejected_email"
    /\ addresses[group[2]].reason = "accepted_email"
    /\ addresses[group[2]].exchange = GroupExchanges[2].exchange

NoAtSign == {i \in 1..Len(email_addresses) : IndexOf(email_addresses[i], "@") = 0}

\* No event of the current group's network record is for the i-th input.
NoTraffic(i) ==
    /\ i \notin GroupMembers
    /\ \A k \in 1..Len(glog) :
         glog[k].op = "rcpt" =>
             (glog[k].rcpt = catch_all_email \/ glog[k].rcpt # addresses[i].query)

\* C8: once the first loop has dealt with it, an input that fails the
\* syntax validation is marked not valid with status=undeliverable and
\* reason=invalid_email, and stays so to the return; the cache was never
\* looked up for it (so the resolver was never asked for it), it has no
\* exchange list, it is in no group, and no RCPT is sent for it.
C8_InvalidSyntax ==
    \A i \in 1..Len(addresses) :
        (Phase1Over(i) /\ (i \in NoAtSign \/ ~addresses[i].valid)) =>
            /\ ~addresses[i].valid
            /\ addresses[i].status = "undeliverable"
            /\ addresses[i].reason = "invalid_email"
            /\ addresses[i].all_exchanges = <<>>
            /\ addresses[i].exchange = <<>>
            /\ \A k \in 1..Len(lookups) : lookups[k].input # i
            /\ i \notin {with_exchanges(addresses)[k] :
                            k \in 1..Len(with_exchanges(addresses))}
            /\ NoTraffic(i)

\* A return where the second of three inputs is not an address and the
\* other two, of one domain, were both probed.
C8_Witness ==
    /\ Returned
    /\ Len(addresses) = 3
    /\ NoAtSign = {2}
    /\ addresses[2].reason = "invalid_email"
    /\ Len(lookups) = 2
    /\ addresses[1].exchange # <<>>
    /\ addresses[3].exchange # <<>>
    /\ Len(glog) > 0

\* ---------------------------------------------------------------- C9
\* The inputs the cache was looked up for and whose name has an empty
\* exchange list.
NoExchanges ==
    {lookups[k].input : k \in {j \in 1..Len(lookups) :
                                  mx_cache[lookups[j].name] = <<>>}}

C9_Marked ==
    \A i \in NoExchanges :
        /\ addresses[i].valid
        /\ addresses[i].status = "undeliverable"
        /\ addresses[i].reason = "invalid_domain"
        /\ addresses[i].exchange = <<>>
        /\ ~addresses[i].catch_all
        /\ i \notin GroupMembers
        /\ \A k \in 1..Len(glog) :
             /\ glog[k].host # <<>>
             /\ glog[k].op = "rcpt" => glog[k].rcpt # addresses[i].email

\* A reason invalid_domain and its status are never written again.
C9_Kept ==
    \A i \in 1..Len(addresses) :
        addresses[i].reason = "invalid_domain" =>
            /\ addresses'[i].reason = "invalid_domain"
            /\ addresses'[i].status = "undeliverable"

\* C9: a valid address whose domain resolves to an empty exchange list has
\* status=undeliverable and reason=invalid_domain from the first loop to
\* the return; it is in no group, no session is opened to an exchange of
\* its (it has none) and no RCPT is sent for it, and its reason and status
\* are never overwritten.
C9_NoExchange == [](C9_Marked) /\ [][C9_Kept]_vars

\* A return where the first input's domain resolved to nothing and the
\* second input, of another domain, was probed and accepted.
C9_Witness ==
    /\ Returned
    /\ Len(addresses) >= 2
    /\ 1 \in NoExchanges
    /\ addresses[1].reason = "invalid_domain"
    /\ 2 \notin NoExchanges
    /\ addresses[2].reason = "accepted_email"

\* --------------------------------------------------------------- C10
\* C10: in every returned result the status is not unknown;
\* status=deliverable only with reason=accepted_email on an address
\* neither catch-all nor disposable; status=risky only with
\* reason=accepted_email on a catch-all or disposable address;
\* status=undeliverable exactly when the reason is one of invalid_email,
\* invalid_domain, rejected_email, no_connect, timeout, invalid_smtp.
C10_StatusOfReason ==
    Returned =>
        \A i \in 1..Len(addresses) :
            LET a == addresses[i]
            IN  /\ a.status \in {"deliverable", "risky", "undeliverable"}
                /\ a.status = "deliverable" =>
                     a.reason = "accepted_email" /\ ~a.catch_all /\ ~a.disposable
                /\ a.status = "risky" =>
                     a.reason = "accepted_email" /\ (a.catch_all \/ a.disposable)
                /\ a.status = "undeliverable" <=>
                     a.reason \in {"invalid_email", "invalid_domain",
                                   "rejected_email", "no_connect", "timeout",
                                   "invalid_smtp"}

\* A return with one result of each status, the risky one disposable and
\* not catch-all.
C10_Witness ==
    /\ Returned
    /\ \E i, j, k \in 1..Len(addresses) :
         /\ addresses[i].status = "deliverable"
         /\ addresses[j].status = "risky"
         /\ addresses[j].disposable
         /\ ~addresses[j].catch_all
         /\ addresses[k].status = "undeliverable"
         /\ addresses[k].reason = "timeout"

\* --------------------------------------------------------------- C11
\* The last step was a catch-all probe (its generator was dropped).
ProbeStep == probe.st = "finished"

\* C11: a start() whose connect exceeds the timeout fails with reason
\* timeout and one whose connect is refused with no_connect; after a
\* catch-all probe whose connect timed out, the exchange loop does not go
\* on to the next exchange as it does after no_connect.
C11_ConnectTimeout ==
    \A k \in 1..Len(last) :
        last[k].op \in {"start", "restart"} =>
            /\ last[k].b.connect = "socket.error" => last[k].out = "no_connect"
            /\ last[k].b.connect = "socket.timeout" =>
                 /\ last[k].out = "timeout"
                 /\ (ProbeStep /\ exIdx <= Len(GroupExchanges)) =>
                        GroupExchanges[exIdx].exchange = last[k].host

\* --------------------------------------------------------------- C12
\* The positions (in group order) of the real recipients whose RCPT got no
\* reply: a timeout or a disconnect.
LostRecipients ==
    {j \in 1..Cardinality(RecipientRcpts) : glog[RecipientRcpt(j)].out = "lost"}

\* C12: when the RCPT for the j-th recipient of a group fails with a
\* timeout or a disconnect, nothing more goes over the network for the
\* group, and the j-th and every later address of the group is reported
\* (it has the exchange probed) as not accepted.
C12_InactiveSession ==
    GroupOver =>
        \A j \in LostRecipients :
            /\ RecipientRcpt(j) = Len(glog)
            /\ \A m \in j..Len(group) :
                 /\ addresses[group[m]].exchange = glog[Len(glog)].host
                 /\ addresses[group[m]].reason = "rejected_email"

\* --------------------------------------------------------------- C13
\* C13: an RCPT for a real address of the group that times out gives that
\* address reason=timeout.
C13_TimeoutSurfaced ==
    \A k \in 1..Len(last) :
        (/\ last[k].op = "rcpt"
         /\ last[k].out = "socket.timeout"
         /\ last[k].rcpt # catch_all_email) =>
            \A i \in GroupMembers :
                addresses[i].email = last[k].rcpt => addresses[i].reason = "timeout"

\* --------------------------------------------------------------- C14
\* C14: after a catch-all probe on the first of two exchanges that failed
\* with invalid_smtp, the exchange loop goes on to the second exchange.
C14_ProtocolErrorFallback ==
    (/\ ProbeStep
     /\ Len(last) = 1
     /\ last[1].op = "start"
     /\ last[1].out = "invalid_smtp"
     /\ Len(GroupExchanges) = 2
     /\ last[1].host = GroupExchanges[1].exchange) =>
        /\ pc = "exchange_loop"
        /\ exIdx = 2

\* --------------------------------------------------------------- C15
\* C15: a group holds every address with exchanges of its domain, wherever
\* the address stands in the input (so there is one group per domain).
C15_OneGroupPerDomain ==
    (pc \notin {"phase1", "raised"} /\ group # <<>>) =>
        \A i \in 1..Len(addresses) :
            (/\ addresses[i].all_exchanges # <<>>
             /\ addresses[i].domain = addresses[group[1]].domain) =>
                i \in GroupMembers

\* --------------------------------------------------------------- C16
\* The last call made on the session.
LastCall == slog[Len(slog)]

\* C16: quit() never raises, whatever state the session is in and
\* whatever happens to the QUIT, and when it is over the handle is
\* cleared.
C16_QuitNeverRaises ==
    (slog # <<>> /\ LastCall.op = "quit") =>
        /\ LastCall.raised = "none"
        /\ sess.smtp = "None"

\* --------------------------------------------------------------- C18
\* C18: when start() fails, at whatever step, the session is left Closed
\* with its handle cleared, as after quit().
C18_ClosedAfterFailedStart ==
    (slog # <<>> /\ LastCall.op = "start" /\ LastCall.raised # "none") =>
        /\ sess.smtp = "None"
        /\ sess.conn = "Closed"

\* --------------------------------------------------------------- C17
\* The catch-all probe of the group got a reply to its RCPT and the reply
\* was a refusal.
ProbeRefused ==
    /\ GroupOver
    /\ ProbeEnd >= 1
    /\ glog[ProbeEnd].op = "rcpt"
    /\ glog[ProbeEnd].out \in {"reject", "block"}

\* The start() and restart() calls made on the exchange the probe was
\* refused by.
HandshakesOnProbed ==
    {k \in 1..Len(glog) :
        glog[k].op \in {"start", "restart"} /\ glog[k].host = glog[ProbeEnd].host}

NoBlockedRecipient == \A k \in RecipientRcpts : glog[k].out # "block"

ExchangeIndex(h) ==
    CHOOSE i \in 1..Len(GroupExchanges) : GroupExchanges[i].exchange = h

RefusedAt(k) == glog[k].op = "start" /\ glog[k].out = "no_connect"

\* Every exchange of the group failed its probe with no_connect.
AllRefused ==
    /\ Len(glog) = Len(GroupExchanges)
    /\ \A k \in 1..Len(glog) : RefusedAt(k)

\* C19: the exchange list of a group is in ascending preference order;
\* every event of the group's record is on an exchange of the list, and
\* every exchange before that one was contacted earlier and failed with
\* no_connect; once an exchange has done anything else than fail its probe
\* with no_connect, every later event is on that same exchange; and when
\* every exchange failed with no_connect, every address of the group keeps
\* reason=no_connect and has no exchange.
C19_ExchangeOrder ==
    (group # <<>> /\ pc # "phase1") =>
        /\ \A i \in 1..(Len(GroupExchanges) - 1) :
             GroupExchanges[i].preference <= GroupExchanges[i + 1].preference
        /\ \A k \in 1..Len(glog) :
             /\ \E i \in 1..Len(GroupExchanges) :
                  GroupExchanges[i].exchange = glog[k].host
             /\ \A i \in 1..(ExchangeIndex(glog[k].host) - 1) :
                  \E j \in 1..(k - 1) :
                      /\ glog[j].host = GroupExchanges[i].exchange
                      /\ RefusedAt(j)
             /\ ~RefusedAt(k) =>
                  \A j \in k..Len(glog) : glog[j].host = glog[k].host
        /\ (GroupOver /\ AllRefused) =>
             \A i \in GroupMembers :
                 /\ addresses[i].reason = "no_connect"
                 /\ addresses[i].exchange = <<>>

\* A group of two addresses whose two exchanges both refused the
\* connection, after the call returned.
C19_Witness ==
    /\ Returned
    /\ Len(group) = 2
    /\ AllRefused
    /\ Len(glog) = 2
    /\ glog[1].host = GroupExchanges[1].exchange
    /\ glog[2].host = GroupExchanges[2].exchange
    /\ GroupExchanges[1].preference < GroupExchanges[2].preference
    /\ \A i \in GroupMembers : addresses[i].status = "undeliverable"

\* --------------------------------------------------------------- C20
\* The last step resumed the generator of the real addresses and ended
\* with a reply code to an RCPT.
RecipientReplied ==
    /\ ~ProbeStep
    /\ last # <<>>
    /\ last[Len(last)].op = "rcpt"
    /\ last[Len(last)].out \in RcptCodes

\* C20: the address whose RCPT was answered is reported accepted for 250
\* and 251 and rejected for every other code; every RCPT is sent in a
\* conversation whose MAIL FROM was answered 250; a restart is made only
\* right after a 552/554 reply, and an RCPT follows another RCPT directly
\* only if that one was answered with a code other than 552/554: after
\* 552/554 the next RCPT comes after a completed handshake.
C20_RecipientProbing ==
    /\ RecipientReplied =>
         /\ gi >= 2
         /\ addresses[group[gi - 1]].reason =
              IF last[Len(last)].out \in {"250", "251"}
              THEN "accepted_email" ELSE "rejected_email"
    /\ \A k \in 1..Len(last) :
         last[k].op = "rcpt" =>
             /\ last[k].conn = "SenderAccepted"
             /\ k > 1 => (last[k - 1].b.mail = "250" /\ last[k - 1].out = "none")
    /\ \A k \in 1..Len(glog) :
         /\ glog[k].op = "restart" =>
              (k > 1 /\ glog[k - 1].op = "rcpt" /\ glog[k - 1].out = "block")
         /\ glog[k].op = "rcpt" =>
              /\ k > 1
              /\ \/ glog[k - 1].op \in {"start", "restart"} /\ glog[k - 1].out = "none"
                 \/ glog[k - 1].op = "rcpt" /\ glog[k - 1].out \in {"accept", "reject"}

\* A group of two addresses: the first answered 552/554, the session
\* restarted, the second answered 251 and reported accepted.
C20_Witness ==
    /\ RecipientReplied
    /\ pc = "groupby"
    /\ Len(group) = 2
    /\ Len(last) = 2
    /\ last[1].op = "restart"
    /\ last[2].out = "251"
    /\ addresses[group[1]].reason = "rejected_email"
    /\ addresses[group[2]].reason = "accepted_email"

\* --------------------------------------------------------------- C21
\* The real addresses of the group were probed: something went over the
\* network after the catch-all probe.
IndividuallyProbed == Len(glog) > ProbeEnd

\* C21: the generator of the real addresses yields one result per address,
\* in order: while izip runs, the result last yielded is that of the
\* address of the group last written; and when the exchange loop of a group
\* whose real addresses were probed is over, every address of the group
\* has a probe result (it holds the exchange probed).
C21_OneResultPerAddress ==
    /\ (pc = "izip" /\ it.st # "created") => it.k = gi - 1
    /\ (GroupOver /\ IndividuallyProbed) =>
         \A i \in GroupMembers : addresses[i].exchange = glog[Len(glog)].host

\* --------------------------------------------------------------- C22
\* C22: when the catch-all probe on the exchange that ended the exchange
\* loop failed in start() (timeout or invalid_smtp: no RCPT was sent for
\* the synthetic recipient), the real addresses of the group are not
\* probed, and none of them ends accepted without the catch-all mark.
C22_ProbedOnlyAfterRejection ==
    (/\ group # <<>>
     /\ pc # "phase1"
     /\ ProbeEnds # {}
     /\ glog[ProbeEnd].op = "start") =>
        /\ ~IndividuallyProbed
        /\ \A i \in GroupMembers :
             ~(addresses[i].reason = "accepted_email" /\ ~addresses[i].catch_all)

====
